---------------------------- MODULE Spec2Model ----------------------------
(***************************************************************************)
(* A model of src/ShuffleNet.py: the construction of the ShuffleNet graph  *)
(* (grouped convolution, channel shuffle, shuffle unit, stage, network).   *)
(*                                                                         *)
(* A tensor is a record [shape, data].  shape is K.int_shape of the        *)
(* tensor, batch dimension first; a symbolic (graph) tensor has batch      *)
(* dimension None and no data, a concrete tensor carries its elements in   *)
(* row-major order.  Every function of the source is an operator that      *)
(* returns a record [err, out, log]: the exception that ended it (or       *)
(* NoErr), the tensor it returns, and the layers it has constructed up to  *)
(* that point, in construction order.                                      *)
(***************************************************************************)
EXTENDS Integers, Sequences, FiniteSets, TLC

VARIABLES fmt, x, pc, last, t0, gs

vars == <<fmt, x, pc, last, t0, gs>>

(***************************************************************************)
(* Bounds of the model.                                                    *)
(***************************************************************************)
MaxChannels == 12
MaxFilters == 12
MaxGroups == 3
MaxRepeat == 3
MaxShuffleChannels == 6
MaxBatch == 2

(***************************************************************************)
(* Values                                                                  *)
(***************************************************************************)
None == 0

NoErr == "none"

\* A build step whose outcome the backend decides and the source does not
\* (a convolution asked for fewer than one filter, or given no channels).
OutOfModel == "out_of_model"

Formats == {"channels_last", "channels_first"}

Min(a, b) == IF a < b THEN a ELSE b

CeilDiv(a, b) == (a + b - 1) \div b

RECURSIVE Prod(_)
Prod(s) == IF s = <<>> THEN 1 ELSE Head(s) * Prod(Tail(s))

Sym(dims) == [shape |-> <<None>> \o dims, data |-> <<>>]

IsSym(t) == t.shape[1] = None

\* channel_axis = 1 if K.image_data_format() == 'channels_first' else -1
channel_axis(f, t) == IF f = "channels_first" THEN 2 ELSE Len(t.shape)

Channels(f, t) == t.shape[channel_axis(f, t)]

\* the two spatial dimensions of a 4-d tensor, (height, width)
Spatial(f, t) ==
    IF f = "channels_first" THEN <<t.shape[3], t.shape[4]>>
    ELSE <<t.shape[2], t.shape[3]>>

\* the shape of a 4-d tensor with the given batch, spatial dims and channels
Shape4(f, b, hw, c) ==
    IF f = "channels_first" THEN <<b, c, hw[1], hw[2]>>
    ELSE <<b, hw[1], hw[2], c>>

\* F(v), with v evaluated once and bound as a value
Let1(v, F(_)) == CHOOSE y \in {F(u) : u \in {v}} : TRUE

Ev(k, a, i, o) == [k |-> k, a |-> a, i |-> i, o |-> o]

Ok(t, ev) == [err |-> NoErr, out |-> t, log |-> <<ev>>]

Fail(e) == [err |-> e, out |-> Sym(<<>>), log |-> <<>>]

\* r, then F applied to what r returned: an exception ends the build where it
\* is raised, and the layers constructed before it stay constructed.
Then(r, F(_)) ==
    Let1(r, LAMBDA rv :
        IF rv.err # NoErr THEN rv
        ELSE Let1(F(rv.out), LAMBDA s :
                 [err |-> s.err, out |-> s.out, log |-> rv.log \o s.log]))

\* The log also records each call of a function of the source as it is
\* entered (and, for a unit and a stage, as it returns): a history, not a layer.
Enter(name, a, t, r) ==
    [r EXCEPT !.log = <<Ev(name, a, t.shape, <<>>)>> \o @]

Return(name, a, t, r) ==
    Let1(r, LAMBDA rv :
        IF rv.err # NoErr THEN rv
        ELSE [rv EXCEPT !.log = @ \o <<Ev(name, a, t.shape, rv.out.shape)>>])

IsLayer(e) ==
    e.k \in {"Conv2D", "DepthwiseConv2D", "BatchNormalization", "ReLU",
             "AveragePooling2D", "MaxPooling2D", "Lambda:slice", "Concatenate",
             "add", "Lambda:reshape", "Lambda:permute_dimensions", "Input",
             "GlobalAveragePooling2D", "Dense", "Activation"}

\* the layers constructed, in order
Layers(log) == SelectSeq(log, IsLayer)

(***************************************************************************)
(* The backend layers the source constructs.  Each returns the symbolic    *)
(* tensor the layer yields and logs the layer.                             *)
(***************************************************************************)

\* Conv2D(filters, kernel_size, strides, padding='same')(t)
Conv2D(f, t, filters, kernel, strides) ==
    IF filters < 1 \/ Channels(f, t) < 1 THEN Fail(OutOfModel)
    ELSE LET hw == Spatial(f, t)
             o  == Shape4(f, t.shape[1],
                          <<CeilDiv(hw[1], strides), CeilDiv(hw[2], strides)>>,
                          filters)
         IN  Ok([shape |-> o, data |-> <<>>],
                Ev("Conv2D", <<filters, kernel, strides>>, t.shape, o))

\* the depthwise convolution with padding='valid'
DepthwiseConv2D_valid(f, t, kernel, strides) ==
    LET hw == Spatial(f, t)
        o  == Shape4(f, t.shape[1],
                     <<CeilDiv(hw[1] - kernel + 1, strides),
                       CeilDiv(hw[2] - kernel + 1, strides)>>,
                     Channels(f, t) * 1)
    IN  Ok([shape |-> o, data |-> <<>>],
           Ev("DepthwiseConv2D", <<kernel, strides>>, t.shape, o))

\* DepthwiseConv2D(kernel_size, strides, depth_multiplier=1, padding='same')(t)
DepthwiseConv2D(f, t, kernel, strides) ==
    LET hw == Spatial(f, t)
        o  == Shape4(f, t.shape[1],
                     <<CeilDiv(hw[1], strides), CeilDiv(hw[2], strides)>>,
                     Channels(f, t) * 1)
    IN  Ok([shape |-> o, data |-> <<>>],
           Ev("DepthwiseConv2D", <<kernel, strides>>, t.shape, o))

\* BatchNormalization(axis=channel_axis)(t)
BatchNormalization(f, t) ==
    Ok(t, Ev("BatchNormalization", <<channel_axis(f, t)>>, t.shape, t.shape))

\* ReLU()(t)
ReLU(t) == Ok(t, Ev("ReLU", <<>>, t.shape, t.shape))

\* AveragePooling2D / MaxPooling2D (pool_size, strides, padding='same')(t)
Pooling2D(name, f, t, pool, strides) ==
    LET hw == Spatial(f, t)
        o  == Shape4(f, t.shape[1],
                     <<CeilDiv(hw[1], strides), CeilDiv(hw[2], strides)>>,
                     Channels(f, t))
    IN  Ok([shape |-> o, data |-> <<>>], Ev(name, <<pool, strides>>, t.shape, o))

AveragePooling2D(f, t, pool, strides) ==
    Pooling2D("AveragePooling2D", f, t, pool, strides)

MaxPooling2D(f, t, pool, strides) ==
    Pooling2D("MaxPooling2D", f, t, pool, strides)

\* Lambda(lambda z: z[:, :, :, lo:hi])(t), or z[:, lo:hi, :, :]: a Python
\* slice of the channel axis, clipped to the axis' length.
LambdaSlice(f, t, lo, hi) ==
    LET c == Channels(f, t)
        n == Min(hi, c) - Min(lo, c)
        o == Shape4(f, t.shape[1], Spatial(f, t), IF n < 0 THEN 0 ELSE n)
    IN  Ok([shape |-> o, data |-> <<>>], Ev("Lambda:slice", <<lo, hi>>, t.shape, o))

RECURSIVE SumChannels(_, _)
SumChannels(f, ts) ==
    IF ts = <<>> THEN 0 ELSE Channels(f, Head(ts)) + SumChannels(f, Tail(ts))

\* Concatenate(axis=channel_axis)(ts): the layer refuses a list of fewer than
\* two inputs ("should be called on a list of at least 2 inputs"), and inputs
\* that disagree on another axis.
Concatenate(f, ts) ==
    IF Len(ts) < 2 THEN Fail("ValueError")
    ELSE IF \E i \in 1..Len(ts) :
                \/ Spatial(f, ts[i]) # Spatial(f, ts[1])
                \/ ts[i].shape[1] # ts[1].shape[1]
         THEN Fail("ValueError")
    ELSE LET o == Shape4(f, ts[1].shape[1], Spatial(f, ts[1]), SumChannels(f, ts))
         IN  Ok([shape |-> o, data |-> <<>>],
                Ev("Concatenate", <<channel_axis(f, ts[1])>>, ts[1].shape, o))

\* add([a, b]): elementwise; an axis of length 1 is broadcast, any other
\* mismatch is refused.  The event holds b's shape as its argument.
add(a, b) ==
    IF \E i \in 2..4 : a.shape[i] # b.shape[i] /\ a.shape[i] # 1 /\ b.shape[i] # 1
    THEN Fail("ValueError")
    ELSE LET o == [i \in 1..4 |->
                     IF i = 1 THEN a.shape[1]
                     ELSE IF a.shape[i] = 1 THEN b.shape[i] ELSE a.shape[i]]
         IN  Ok([shape |-> o, data |-> <<>>], Ev("add", b.shape, a.shape, o))

(***************************************************************************)
(* K.reshape and K.permute_dimensions, on symbolic and on concrete         *)
(* tensors.  A target shape leads with -1: the batch axis is inferred.     *)
(***************************************************************************)
K_reshape(z, shape) ==
    LET rest == Prod(Tail(shape))
    IN  IF rest = 0 THEN Fail(OutOfModel)
        ELSE IF IsSym(z)
        THEN Ok([shape |-> <<None>> \o Tail(shape), data |-> <<>>],
                Ev("Lambda:reshape", shape, z.shape, <<None>> \o Tail(shape)))
        ELSE IF Len(z.data) % rest # 0 THEN Fail("InvalidArgumentError")
        ELSE LET o == <<Len(z.data) \div rest>> \o Tail(shape)
             IN  Ok([shape |-> o, data |-> z.data],
                    Ev("Lambda:reshape", shape, z.shape, o))

\* the row-major stride of axis j of a tensor of shape s
Stride(s, j) == Prod(SubSeq(s, j + 1, Len(s)))

RECURSIVE SourceIndex(_, _, _, _, _)
\* the flat index, in a tensor of shape s, of the element that
\* permute_dimensions(., dim) puts at flat index p of its result of shape o
SourceIndex(s, o, dim, p, j) ==
    IF j > Len(o) THEN 0
    ELSE ((p \div Stride(o, j)) % o[j]) * Stride(s, dim[j] + 1)
         + SourceIndex(s, o, dim, p, j + 1)

K_permute_dimensions(z, dim) ==
    LET o == [j \in 1..Len(dim) |-> z.shape[dim[j] + 1]]
    IN  IF IsSym(z)
        THEN Ok([shape |-> o, data |-> <<>>],
                Ev("Lambda:permute_dimensions", dim, z.shape, o))
        ELSE Ok([shape |-> o,
                 data  |-> [p \in 1..Len(z.data) |->
                              z.data[SourceIndex(z.shape, o, dim, p - 1, 1) + 1]]],
                Ev("Lambda:permute_dimensions", dim, z.shape, o))

(***************************************************************************)
(* _group_conv                                                             *)
(***************************************************************************)
\* one iteration of the loop over the groups: the slice, then its convolution
GroupIter(f, t, i, nb_ig, nb_og, kernel, stride) ==
    Then(LambdaSlice(f, t, i * nb_ig, (i + 1) * nb_ig),
         LAMBDA x_group : Conv2D(f, x_group, nb_og, kernel, stride))

RECURSIVE GroupLoop(_, _, _, _, _, _, _, _, _)
\* for i in range(groups): gc_list.append(...); acc is [err, gc_list, log]
GroupLoop(f, t, i, groups, nb_ig, nb_og, kernel, stride, acc) ==
    Let1(acc, LAMBDA av :
        IF i >= groups \/ av.err # NoErr THEN av
        ELSE Let1(GroupIter(f, t, i, nb_ig, nb_og, kernel, stride), LAMBDA r :
                 GroupLoop(f, t, i + 1, groups, nb_ig, nb_og, kernel, stride,
                           [err     |-> r.err,
                            gc_list |-> IF r.err = NoErr
                                        THEN Append(av.gc_list, r.out)
                                        ELSE av.gc_list,
                            log     |-> av.log \o r.log])))

\* nb_ig = in_channels // groups: number of input channels per group
in_per_group(in_channels, groups) == in_channels \div groups

\* nb_og = filters // groups: number of output channels per group
out_per_group(filters, groups) == filters \div groups

_group_conv(f, t, filters, kernel, stride, groups) ==
    Enter("call:_group_conv", <<filters, kernel, stride, groups>>, t,
    IF groups = 0 THEN Fail("ZeroDivisionError")
    ELSE IF filters % groups # 0 THEN Fail("AssertionError")
    ELSE LET in_channels == Channels(f, t)
             nb_ig == in_per_group(in_channels, groups)
             nb_og == out_per_group(filters, groups)
         IN  Let1(GroupLoop(f, t, 0, groups, nb_ig, nb_og, kernel, stride,
                            [err |-> NoErr, gc_list |-> <<>>, log |-> <<>>]),
                  LAMBDA loop :
                      IF loop.err # NoErr
                      THEN [err |-> loop.err, out |-> Sym(<<>>), log |-> loop.log]
                      ELSE Let1(Concatenate(f, loop.gc_list), LAMBDA c :
                               [err |-> c.err, out |-> c.out,
                                log |-> loop.log \o c.log])))

(***************************************************************************)
(* _channel_shuffle                                                        *)
(***************************************************************************)
channels_per_group_off(in_channels, groups) == in_channels \div groups + 1

\* channels_per_group = in_channels // groups
channels_per_group(in_channels, groups) == in_channels \div groups

pre_shape(f, t, groups) ==
    LET hw == Spatial(f, t)
        cpg == channels_per_group(Channels(f, t), groups)
    IN  IF f = "channels_last"
        THEN <<-1, hw[1], hw[2], groups, cpg>>
        ELSE <<-1, groups, cpg, hw[1], hw[2]>>

dim_unswapped(f) == <<0, 1, 2, 3, 4>>

dim(f) == IF f = "channels_last" THEN <<0, 1, 2, 4, 3>> ELSE <<0, 2, 1, 3, 4>>

later_shape(f, t) ==
    LET hw == Spatial(f, t)
    IN  IF f = "channels_last"
        THEN <<-1, hw[1], hw[2], Channels(f, t)>>
        ELSE <<-1, Channels(f, t), hw[1], hw[2]>>

_channel_shuffle(f, t, groups) ==
    Enter("call:_channel_shuffle", <<groups>>, t,
    IF groups = 0 THEN Fail("ZeroDivisionError")
    ELSE Then(Then(K_reshape(t, pre_shape(f, t, groups)),
                   LAMBDA z : K_permute_dimensions(z, dim(f))),
              LAMBDA z : K_reshape(z, later_shape(f, t))))

(***************************************************************************)
(* _shufflenet_unit                                                        *)
(***************************************************************************)
bottleneck_channels_fifth(filters) == filters \div 5

\* int(filters * bottleneck_ratio), bottleneck_ratio = 0.25
bottleneck_channels(filters) == filters \div 4

\* the first pointwise layer: a plain convolution in stage 2, grouped otherwise
Bottleneck(f, inputs, filters, kernel, groups, stage) ==
    IF stage = 2
    THEN Conv2D(f, inputs, bottleneck_channels(filters), kernel, 1)
    ELSE _group_conv(f, inputs, bottleneck_channels(filters), 1, 1, groups)

\* the stride-2 merge with the grouped convolution restoring all of `filters`
MergeConcat_full(f, inputs, t, filters, groups) ==
    Then(Then(_group_conv(f, t, filters, 1, 1, groups),
              LAMBDA z : BatchNormalization(f, z)),
         LAMBDA z : Then(AveragePooling2D(f, inputs, 3, 2),
                         LAMBDA avg : Concatenate(f, <<z, avg>>)))

\* the stride-2 merge with the shortcut pooled but left out of the result:
\* the grouped branch is concatenated with itself
MergeConcat_no_shortcut(f, inputs, t, filters, groups) ==
    Then(Then(_group_conv(f, t, filters - Channels(f, inputs), 1, 1, groups),
              LAMBDA z : BatchNormalization(f, z)),
         LAMBDA z : Then(AveragePooling2D(f, inputs, 3, 2),
                         LAMBDA avg : Concatenate(f, <<z, z>>)))

\* the merge of a stride-2 unit: grouped convolution up to filters - in_channels,
\* concatenated with the average-pooled input
MergeConcat(f, inputs, t, filters, groups) ==
    Then(Then(_group_conv(f, t, filters - Channels(f, inputs), 1, 1, groups),
              LAMBDA z : BatchNormalization(f, z)),
         LAMBDA z : Then(AveragePooling2D(f, inputs, 3, 2),
                         LAMBDA avg : Concatenate(f, <<z, avg>>)))

\* the merge of any other unit: grouped convolution up to filters, added to
\* the input
MergeAdd(f, inputs, t, filters, groups) ==
    Then(Then(_group_conv(f, t, filters, 1, 1, groups),
              LAMBDA z : BatchNormalization(f, z)),
         LAMBDA z : add(z, inputs))

_shufflenet_unit(f, inputs, filters, kernel, stride, groups, stage) ==
    LET a  == <<filters, kernel, stride, groups, stage>>
        s1 == Bottleneck(f, inputs, filters, kernel, groups, stage)
        s2 == Then(s1, LAMBDA z : BatchNormalization(f, z))
        s3 == Then(s2, LAMBDA z : ReLU(z))
        s4 == Then(s3, LAMBDA z : _channel_shuffle(f, z, groups))
        s5 == Then(s4, LAMBDA z : DepthwiseConv2D(f, z, kernel, stride))
        s6 == Then(s5, LAMBDA z : BatchNormalization(f, z))
        s7 == Then(s6, LAMBDA z :
                    IF stride = 2
                    THEN MergeConcat(f, inputs, z, filters, groups)
                    ELSE MergeAdd(f, inputs, z, filters, groups))
    IN  Return("return:_shufflenet_unit", a, inputs,
               Enter("call:_shufflenet_unit", a, inputs, s7))

(***************************************************************************)
(* _stage                                                                  *)
(***************************************************************************)
RECURSIVE StageLoop(_, _, _, _, _, _, _, _)
\* for i in range(1, repeat): x = _shufflenet_unit(x, filters, kernel, 1, ...)
StageLoop(f, r, i, filters, kernel, groups, repeat, stage) ==
    Let1(r, LAMBDA rv :
        IF i >= repeat \/ rv.err # NoErr THEN rv
        ELSE StageLoop(f,
                       Then(rv, LAMBDA z :
                              _shufflenet_unit(f, z, filters, kernel, 1, groups, stage)),
                       i + 1, filters, kernel, groups, repeat, stage))

\* the stage with its loop run from 0: range(repeat) after the first unit
_stage_from_zero(f, t, filters, kernel, groups, repeat, stage) ==
    LET a == <<filters, kernel, groups, repeat, stage>>
    IN  Return("return:_stage", a, t,
               Enter("call:_stage", a, t,
                     StageLoop(f,
                               _shufflenet_unit(f, t, filters, kernel, 2, groups, stage),
                               0, filters, kernel, groups, repeat, stage)))

_stage(f, t, filters, kernel, groups, repeat, stage) ==
    LET a == <<filters, kernel, groups, repeat, stage>>
    IN  Return("return:_stage", a, t,
               Enter("call:_stage", a, t,
                     StageLoop(f,
                               _shufflenet_unit(f, t, filters, kernel, 2, groups, stage),
                               1, filters, kernel, groups, repeat, stage)))

(***************************************************************************)
(* ShuffleNet                                                              *)
(***************************************************************************)
\* Input(shape=input_shape)
Input(input_shape) ==
    Ok(Sym(input_shape), Ev("Input", input_shape, <<>>, <<None>> \o input_shape))

\* GlobalAveragePooling2D()(t)
GlobalAveragePooling2D(f, t) ==
    Ok([shape |-> <<t.shape[1], Channels(f, t)>>, data |-> <<>>],
       Ev("GlobalAveragePooling2D", <<>>, t.shape, <<t.shape[1], Channels(f, t)>>))

\* Dense(units)(t)
Dense(t, units) ==
    Ok([shape |-> <<t.shape[1], units>>, data |-> <<>>],
       Ev("Dense", <<units>>, t.shape, <<t.shape[1], units>>))

\* Activation('softmax')(t)
Activation(t) == Ok(t, Ev("Activation", <<>>, t.shape, t.shape))

ShuffleNet(f, input_shape, classes) ==
    LET s0 == Input(input_shape)
        s1 == Then(s0, LAMBDA z : Conv2D(f, z, 24, 3, 2))
        s2 == Then(s1, LAMBDA z : MaxPooling2D(f, z, 3, 2))
        s3 == Then(s2, LAMBDA z : _stage(f, z, 384, 3, 8, 4, 2))
        s4 == Then(s3, LAMBDA z : _stage(f, z, 768, 3, 8, 8, 3))
        s5 == Then(s4, LAMBDA z : _stage(f, z, 1536, 3, 8, 4, 4))
        s6 == Then(s5, LAMBDA z : GlobalAveragePooling2D(f, z))
        s7 == Then(s6, LAMBDA z : Dense(z, classes))
        s8 == Then(s7, LAMBDA z : Activation(z))
    IN  Enter("call:ShuffleNet", input_shape \o <<classes>>, Sym(input_shape), s8)

(***************************************************************************)
(* The builder as a state machine.  fmt is K.image_data_format(); x is the *)
(* tensor at hand; one call of a function of the source on x either        *)
(* returns (its output becomes x) or raises.  last records the call: the   *)
(* function, its arguments, its input and what it did.                     *)
(***************************************************************************)
Kernels == {1, 3}

Strides == {1, 2}

Stages == {2, 3}

Filters == 1..MaxFilters

Groups == 0..MaxGroups

Repeats == (0 - 1)..MaxRepeat

Sizes == {<<4, 4>>, <<5, 7>>}

InputShapes == {<<224, 224, 3>>, <<32, 48, 3>>, <<65, 33, 1>>}

Classes == {10, 1000}

NoCall == [fn |-> "none", args |-> <<>>, inp |-> Sym(<<>>),
           res |-> [err |-> NoErr, out |-> Sym(<<>>), log |-> <<>>]]

Init ==
    /\ fmt \in Formats
    /\ \E hw \in Sizes, c \in 1..MaxChannels :
          x = [shape |-> Shape4(fmt, None, hw, c), data |-> <<>>]
    /\ pc = "ready"
    /\ last = NoCall
    /\ t0 = x
    /\ gs = <<>>

\* the call fn(x, args) did r.  Calls whose outcome is the backend's to decide
\* (OutOfModel) are not among the inputs.
Did(fn, args, r) ==
    /\ r.err # OutOfModel
    /\ last' = [fn |-> fn, args |-> args, inp |-> x, res |-> r]
    /\ x' = IF r.err = NoErr THEN r.out ELSE x
    /\ pc' = IF r.err # NoErr THEN "raised" ELSE "returned"
    /\ UNCHANGED <<fmt, t0, gs>>

GroupConvCall ==
    /\ pc = "ready"
    /\ \E filters \in Filters, kernel \in Kernels, stride \in Strides, groups \in Groups :
          Did("_group_conv", <<filters, kernel, stride, groups>>,
              _group_conv(fmt, x, filters, kernel, stride, groups))

ChannelShuffleCall ==
    /\ pc = "ready"
    /\ \E groups \in Groups :
          Did("_channel_shuffle", <<groups>>, _channel_shuffle(fmt, x, groups))

UnitCall ==
    /\ pc = "ready"
    /\ \E filters \in Filters, kernel \in Kernels, stride \in Strides,
          groups \in Groups, stage \in Stages :
          Did("_shufflenet_unit", <<filters, kernel, stride, groups, stage>>,
              _shufflenet_unit(fmt, x, filters, kernel, stride, groups, stage))

StageCall ==
    /\ pc = "ready"
    /\ \E filters \in Filters, kernel \in Kernels, groups \in Groups,
          repeat \in Repeats, stage \in Stages :
          Did("_stage", <<filters, kernel, groups, repeat, stage>>,
              _stage(fmt, x, filters, kernel, groups, repeat, stage))

ShuffleNetCall ==
    /\ pc = "ready"
    /\ \E input_shape \in InputShapes, classes \in Classes :
          Did("ShuffleNet", input_shape \o <<classes>>,
              ShuffleNet(fmt, input_shape, classes))

Next ==
    \/ GroupConvCall
    \/ ChannelShuffleCall
    \/ UnitCall
    \/ StageCall
    \/ ShuffleNetCall

Spec == Init /\ [][Next]_vars

(***************************************************************************)
(* The channel shuffle run on data: x is a concrete tensor whose elements  *)
(* are numbered in row-major order, t0 the tensor the run started from, gs *)
(* the groups of the shuffles applied so far.                              *)
(***************************************************************************)
ShuffleSizes == {<<1, 1>>, <<2, 1>>, <<2, 3>>}

Concrete(f, b, hw, c) ==
    [shape |-> Shape4(f, b, hw, c),
     data  |-> [p \in 1..(b * hw[1] * hw[2] * c) |-> p]]

InitShuffle ==
    /\ fmt \in Formats
    /\ \E b \in 1..MaxBatch, hw \in ShuffleSizes, c \in 1..MaxShuffleChannels :
          x = Concrete(fmt, b, hw, c)
    /\ pc = "ready"
    /\ last = NoCall
    /\ t0 = x
    /\ gs = <<>>

ShuffleRun ==
    /\ pc = "ready"
    /\ Len(gs) < 2
    /\ \E groups \in 0..MaxShuffleChannels :
          LET r == _channel_shuffle(fmt, x, groups)
          IN  /\ r.err # OutOfModel
              /\ last' = [fn |-> "_channel_shuffle", args |-> <<groups>>,
                          inp |-> x, res |-> r]
              /\ x' = IF r.err = NoErr THEN r.out ELSE x
              /\ pc' = IF r.err = NoErr THEN "ready" ELSE "raised"
              /\ gs' = Append(gs, groups)
              /\ UNCHANGED <<fmt, t0>>

NextShuffle == ShuffleRun

SpecShuffle == InitShuffle /\ [][NextShuffle]_vars

(***************************************************************************)
(* Properties of the channel shuffle, checked under SpecShuffle.            *)
(***************************************************************************)
\* the place in t.data of element (b, h, w, k): batch, row, column, channel
Flat(f, t, b, h, w, k) ==
    LET hw == Spatial(f, t)
        c  == Channels(f, t)
    IN  IF f = "channels_last"
        THEN ((b * hw[1] + h) * hw[2] + w) * c + k + 1
        ELSE ((b * c + k) * hw[1] + h) * hw[2] + w + 1

\* C3: for every channel count c and every g dividing c, channelShuffle with
\* groups = g followed by channelShuffle with groups = c/g succeeds and puts
\* every element back where it was: the composition is the identity.
C3_DoubleShuffleRoundTrip ==
    ( /\ Len(gs) = 2
      /\ gs[1] # 0
      /\ Channels(fmt, t0) % gs[1] = 0
      /\ gs[2] = Channels(fmt, t0) \div gs[1] )
    => /\ pc = "ready"
       /\ x = t0

\* a round trip through a shuffle that did reorder the channels
C3_Witness ==
    /\ gs = <<2, 3>>
    /\ Channels(fmt, t0) = 6
    /\ pc = "ready"
    /\ last.inp # t0
    /\ x = t0

\* C9: for every channel count C and groups dividing C, channelShuffle moves
\* the channel at index k to index (k mod (C/groups)) * groups + (k div
\* (C/groups)), for every k in [0, C); that map is a bijection on [0, C), and
\* batch and spatial dimensions are unchanged, in both layouts.
C9_ShuffleIndexMap ==
    ( /\ Len(gs) = 1
      /\ gs[1] # 0
      /\ Channels(fmt, t0) % gs[1] = 0 )
    => LET c == Channels(fmt, t0)
           g == gs[1]
           n == c \div g
           hw == Spatial(fmt, t0)
           To(k) == (k % n) * g + (k \div n)
       IN  /\ pc = "ready"
           /\ x.shape = t0.shape
           /\ Len(x.data) = Len(t0.data)
           /\ \A b \in 0..(t0.shape[1] - 1), h \in 0..(hw[1] - 1),
                 w \in 0..(hw[2] - 1), k \in 0..(c - 1) :
                 x.data[Flat(fmt, t0, b, h, w, To(k))]
                     = t0.data[Flat(fmt, t0, b, h, w, k)]
           /\ {To(k) : k \in 0..(c - 1)} = 0..(c - 1)

\* one shuffle of six channels in two groups, channels first, two images
C9_Witness ==
    /\ gs = <<2>>
    /\ fmt = "channels_first"
    /\ t0.shape = <<2, 6, 2, 3>>
    /\ pc = "ready"
    /\ x # t0

(***************************************************************************)
(* Properties of the builder, checked under Spec.                          *)
(***************************************************************************)
\* the channel count of a logged shape
ShapeChannels(shape) == Channels(fmt, [shape |-> shape])

ShapeSpatial(shape) == Spatial(fmt, [shape |-> shape])

\* the logged events of one kind, in order
Events(log, k) == SelectSeq(log, LAMBDA e : e.k = k)

Halved(hw) == <<CeilDiv(hw[1], 2), CeilDiv(hw[2], 2)>>

\* The source has no ConfigurationError: the exceptions of its own checks and
\* arithmetic on the configuration stand for it.
IsConfigurationError(e) == e \in {"AssertionError", "ZeroDivisionError"}

\* a grouped convolution was entered whose filters or input channels its
\* groups do not divide
ReachedIndivisibleGroupConv ==
    \E i \in 1..Len(last.res.log) :
        LET e == last.res.log[i]
        IN  /\ e.k = "call:_group_conv"
            /\ e.a[4] # 0
            /\ \/ e.a[1] % e.a[4] # 0
               \/ ShapeChannels(e.i) % e.a[4] # 0

\* C1: every call of groupedConv, and every ShuffleUnit build that reaches
\* one, with filters % groups != 0 or input channels not divisible by groups
\* ends in a ConfigurationError, and no layer was constructed before it.
C1_IndivisibleRaisesBeforeAnyLayer ==
    ( /\ last.fn \in {"_group_conv", "_shufflenet_unit"}
      /\ ReachedIndivisibleGroupConv )
    => /\ IsConfigurationError(last.res.err)
       /\ Layers(last.res.log) = <<>>

\* C2: for every group count with channels % groups = 0 and filters % groups
\* = 0 (one group included), groupedConv builds exactly `groups` convolutions
\* of filters/groups output channels each, and its concatenated output has
\* exactly `filters` channels.
C2_GroupedConvChannels ==
    ( /\ last.fn = "_group_conv"
      /\ last.args[4] # 0
      /\ Channels(fmt, last.inp) % last.args[4] = 0
      /\ last.args[1] % last.args[4] = 0 )
    => LET convs == Events(last.res.log, "Conv2D")
       IN  /\ last.res.err = NoErr
           /\ Len(convs) = last.args[4]
           /\ \A i \in 1..Len(convs) :
                 ShapeChannels(convs[i].o) = last.args[1] \div last.args[4]
           /\ Channels(fmt, last.res.out) = last.args[1]

UnitFilters == last.args[1]

UnitStride == last.args[3]

UnitGroups == last.args[4]

UnitStage == last.args[5]

\* the unit's configuration meets the requirements the grouped convolutions
\* and the shuffle state: at least two groups (one group leaves Concatenate a
\* single input), a bottleneck of at least one channel that groups divides,
\* as it divides the width w the last grouped convolution restores, and,
\* where the bottleneck is grouped (past stage 2), the input channels
UnitConfigValid(w) ==
    /\ UnitGroups >= 2
    /\ w >= 1
    /\ w % UnitGroups = 0
    /\ bottleneck_channels(UnitFilters) >= 1
    /\ bottleneck_channels(UnitFilters) % UnitGroups = 0
    /\ UnitStage # 2 => Channels(fmt, last.inp) % UnitGroups = 0

\* C4 as stated: every stride-1 ShuffleUnit that returns, whatever its stage,
\* returns a tensor of exactly the shape of its input.
C4_StrideOneKeepsAnyShape ==
    ( /\ last.fn = "_shufflenet_unit"
      /\ UnitStride = 1
      /\ last.res.err = NoErr )
    => last.res.out.shape = last.inp.shape

\* C4, amended: a stride-1 ShuffleUnit, in stage 2 or later, whose input
\* already has `filters` channels returns a tensor of exactly the shape of
\* its input; and it does return one whenever its configuration is valid.
C4_StrideOneKeepsShape ==
    ( /\ last.fn = "_shufflenet_unit"
      /\ UnitStride = 1
      /\ Channels(fmt, last.inp) = UnitFilters )
    => /\ last.res.err = NoErr => last.res.out.shape = last.inp.shape
       /\ UnitConfigValid(UnitFilters) => last.res.err = NoErr

\* a stride-1 unit of stage 2 (plain 3x3 bottleneck) on a 5x7 input of width 8
C4_Witness ==
    /\ last.fn = "_shufflenet_unit"
    /\ last.args = <<8, 3, 1, 2, 2>>
    /\ Channels(fmt, last.inp) = 8
    /\ Spatial(fmt, last.inp) = <<5, 7>>
    /\ pc = "returned"
    /\ Len(Events(last.res.log, "add")) = 1

\* C5: a stride-2 ShuffleUnit with input channels Cin: the grouped branch has
\* filters - Cin channels, the average-pooled shortcut Cin, their
\* concatenation exactly `filters`, and every spatial dimension of both
\* branches and of the output is ceil(inputDim / 2); and the unit does return
\* whenever its configuration is valid.
C5_StrideTwoWidensAndHalves ==
    ( /\ last.fn = "_shufflenet_unit"
      /\ UnitStride = 2 )
    => LET cin  == Channels(fmt, last.inp)
           half == Halved(Spatial(fmt, last.inp))
           ls   == Layers(last.res.log)
           n    == Len(ls)
       IN  /\ last.res.err = NoErr =>
                 /\ ls[n].k = "Concatenate"
                 /\ ls[n - 1].k = "AveragePooling2D"
                 /\ ls[n - 2].k = "BatchNormalization"
                 /\ ShapeChannels(ls[n - 2].o) = UnitFilters - cin
                 /\ ShapeSpatial(ls[n - 2].o) = half
                 /\ ShapeChannels(ls[n - 1].o) = cin
                 /\ ShapeSpatial(ls[n - 1].o) = half
                 /\ Channels(fmt, last.res.out) = UnitFilters
                 /\ Spatial(fmt, last.res.out) = half
           /\ UnitConfigValid(UnitFilters - cin) => last.res.err = NoErr

\* a stride-2 unit of stage 3, two groups, taking a 5x7 input from 4 to 8
\* channels
C5_Witness ==
    /\ last.fn = "_shufflenet_unit"
    /\ last.args = <<8, 3, 2, 2, 3>>
    /\ Channels(fmt, last.inp) = 4
    /\ Spatial(fmt, last.inp) = <<5, 7>>
    /\ pc = "returned"
    /\ Spatial(fmt, last.res.out) = <<3, 4>>

\* C6: a Stage call with repeat >= 1 that returns has built exactly `repeat`
\* ShuffleUnits, one after the other, each fed the output of the one before
\* (the first the stage's input): the first with stride 2, the others with
\* stride 1, all with the stage's filters, kernel, groups and stage index.
C6_StageBuildsRepeatUnits ==
    ( /\ last.fn = "_stage"
      /\ last.args[4] >= 1
      /\ last.res.err = NoErr )
    => LET filters == last.args[1]
           kernel  == last.args[2]
           groups  == last.args[3]
           repeat  == last.args[4]
           stage   == last.args[5]
           calls   == Events(last.res.log, "call:_shufflenet_unit")
           rets    == Events(last.res.log, "return:_shufflenet_unit")
           both    == SelectSeq(last.res.log, LAMBDA e :
                          e.k \in {"call:_shufflenet_unit", "return:_shufflenet_unit"})
       IN  /\ Len(calls) = repeat
           /\ Len(rets) = repeat
           /\ \A j \in 1..Len(both) :
                 both[j].k = IF j % 2 = 1 THEN "call:_shufflenet_unit"
                             ELSE "return:_shufflenet_unit"
           /\ \A i \in 1..repeat :
                 calls[i].a = <<filters, kernel, IF i = 1 THEN 2 ELSE 1, groups, stage>>
           /\ calls[1].i = last.inp.shape
           /\ \A i \in 2..repeat : calls[i].i = rets[i - 1].o
           /\ last.res.out.shape = rets[repeat].o

\* a stage of three units taking 4 channels to 8
C6_Witness ==
    /\ last.fn = "_stage"
    /\ last.args = <<8, 3, 2, 3, 3>>
    /\ Channels(fmt, last.inp) = 4
    /\ pc = "returned"
    /\ Len(Events(last.res.log, "return:_shufflenet_unit")) = 3

\* C7: the network built for input (224,224,3) and 1000 classes (and for
\* every other input of the model) has three stages, each returning a tensor
\* as wide as its configured filters: 384 after stage 2, 768 after stage 3
\* and 1536 after stage 4.
C7_StageWidths ==
    last.fn = "ShuffleNet"
    => LET rets == Events(last.res.log, "return:_stage")
       IN  /\ last.res.err = NoErr
           /\ Len(rets) = 3
           /\ \A i \in 1..Len(rets) :
                 /\ rets[i].a[5] = i + 1
                 /\ ShapeChannels(rets[i].o) = rets[i].a[1]
           /\ ShapeChannels(rets[1].o) = 384
           /\ ShapeChannels(rets[2].o) = 768
           /\ ShapeChannels(rets[3].o) = 1536

\* the network for (224,224,3) and 1000 classes, channels last: stage 4
\* returns a 7x7 map of 1536 channels
C7_Witness ==
    /\ last.fn = "ShuffleNet"
    /\ last.args = <<224, 224, 3, 1000>>
    /\ fmt = "channels_last"
    /\ pc = "returned"
    /\ Events(last.res.log, "return:_stage")[3].o = <<None, 7, 7, 1536>>
    /\ last.res.out.shape = <<None, 1000>>

\* a call was given a non-positive repeat or groups
NonPositiveConfig ==
    \/ last.fn = "_stage" /\ (last.args[4] <= 0 \/ last.args[3] <= 0)
    \/ last.fn \in {"_group_conv", "_shufflenet_unit"} /\ last.args[4] <= 0
    \/ last.fn = "_channel_shuffle" /\ last.args[1] <= 0

\* C8: a configuration with a non-positive repeat or groups is rejected with
\* a ConfigurationError before anything is built (a Stage with repeat <= 0
\* builds no ShuffleUnit), and no build that ends in an error leaves layers
\* behind.
C8_NonPositiveRejectedBeforeBuilding ==
    /\ NonPositiveConfig
       => /\ IsConfigurationError(last.res.err)
          /\ Layers(last.res.log) = <<>>
          /\ Events(last.res.log, "call:_shufflenet_unit") = <<>>
    /\ last.res.err # NoErr => Layers(last.res.log) = <<>>

\* C10: throughout the default network build every precondition holds at
\* every step of all 16 ShuffleUnits: each grouped convolution has input
\* channels and filters divisible by groups, each channel shuffle has channels
\* divisible by groups, every convolution is asked for at least one filter
\* (bottleneck channels >= 1), each stride-2 unit has filters - inputChannels
\* > 0, each stride-1 unit receives an input as wide as its filters, every
\* residual add has two operands of one shape, and no assertion fails: the
\* build returns.
C10_DefaultBuildPreconditions ==
    last.fn = "ShuffleNet"
    => LET log   == last.res.log
           units == Events(log, "call:_shufflenet_unit")
       IN  /\ last.res.err = NoErr
           /\ Len(units) = 16
           /\ Len(Events(log, "return:_shufflenet_unit")) = 16
           /\ \A i \in 1..Len(log) :
                 LET e == log[i]
                 IN  /\ e.k = "call:_group_conv" =>
                           /\ e.a[4] >= 1
                           /\ ShapeChannels(e.i) % e.a[4] = 0
                           /\ e.a[1] % e.a[4] = 0
                     /\ e.k = "call:_channel_shuffle" =>
                           /\ e.a[1] >= 1
                           /\ ShapeChannels(e.i) % e.a[1] = 0
                     /\ e.k = "Conv2D" => e.a[1] >= 1
                     /\ e.k = "call:_shufflenet_unit" =>
                           /\ e.a[3] = 2 => e.a[1] - ShapeChannels(e.i) > 0
                           /\ e.a[3] = 1 => ShapeChannels(e.i) = e.a[1]
                     /\ e.k = "add" => e.i = e.a /\ e.o = e.i

\* the default build for a 32x48 input and 10 classes: 16 units, 13 of them
\* residual, and 28 grouped convolutions
C10_Witness ==
    /\ last.fn = "ShuffleNet"
    /\ last.args = <<32, 48, 3, 10>>
    /\ pc = "returned"
    /\ Len(Events(last.res.log, "call:_shufflenet_unit")) = 16
    /\ Len(Events(last.res.log, "add")) = 13
    /\ Len(Events(last.res.log, "call:_group_conv")) = 28

=============================================================================
